---- MODULE Spec2Model ----
(***************************************************************************)
(* A model of binarytree.c: an AVL tree of Python objects.  Nodes live in  *)
(* a heap indexed by node identity; every C function that takes or returns *)
(* Node pointers becomes an operator from a heap to a heap.                *)
(***************************************************************************)
EXTENDS Integers, Sequences, FiniteSets, TLC

\* Largest item of the general specifications (items are 1..MaxItem).
MaxItem == 4

\* The C null pointer.
NULL == 0

\* Number of items that have a twin: another object that compares equal to it.
Twins == 1

Items == 1..MaxItem

\* The objects the general specifications insert; -k is the twin of k.
Objects == Items \cup {-k : k \in 1..Twins}

\* What the comparison of two objects goes by.
KeyOf(o) == IF o < 0 THEN -o ELSE o

Max(a, b) == IF a > b THEN a ELSE b

(***************************************************************************)
(* The interpreter services the module calls.  A call of PyObject_Compare  *)
(* or Py_EnterRecursiveCall can fail; `env` says where in the current      *)
(* operation it does: env.cmpFailAt is the recursion depth of the          *)
(* comparison that raises (-1: none does) and env.cmpFailRes the integer   *)
(* that call returns, env.depthLeft is the number of nested calls the      *)
(* interpreter still allows (-1: the limit is not reached).                *)
(***************************************************************************)
NoFailure == [cmpFailAt |-> -1, cmpFailRes |-> 0, depthLeft |-> -1]

\* The three-way comparison of two items, with the error indicator it sets.
PyObject_Compare(a, b, d, env) ==
    IF env.cmpFailAt = d
    THEN [val |-> env.cmpFailRes, err |-> TRUE]
    ELSE [val |-> (IF KeyOf(a) < KeyOf(b) THEN -1
                   ELSE IF KeyOf(a) = KeyOf(b) THEN 0 ELSE 1),
          err |-> FALSE]

\* TRUE iff entering the recursive call made at depth d trips the depth guard.
Py_EnterRecursiveCall(d, env) == env.depthLeft >= 0 /\ d >= env.depthLeft

(***************************************************************************)
(* Nodes                                                                   *)
(***************************************************************************)
heightOf(H, n) == IF n = NULL THEN 0 ELSE H[n].height

NODE_UPDATE_BALANCE(H, n) ==
    [H EXCEPT ![n].balance = heightOf(H, H[n].rchild) - heightOf(H, H[n].lchild)]

NODE_SET_LEAF(H, n) ==
    [H EXCEPT ![n].height = 1, ![n].rchild = NULL, ![n].lchild = NULL,
              ![n].balance = 0]

NODE_IS_LEAF(H, n) ==
    /\ H[n].height = 1
    /\ ~(H[n].lchild # NULL \/ H[n].rchild # NULL)
    /\ H[n].balance = 0

Node_updateHeight(H, n) ==
    IF n = NULL THEN H
    ELSE [H EXCEPT ![n].height =
              1 + Max(heightOf(H, H[n].lchild), heightOf(H, H[n].rchild))]

\* The address PyObject_GC_New hands out: one that no live node has.
FreshNode(H) == CHOOSE n \in 1..(Cardinality(DOMAIN H) + 1) :
                    /\ n \notin DOMAIN H
                    /\ \A m \in 1..(n - 1) : m \in DOMAIN H

\* A new leaf holding no item, added to the heap.
Node_new(H) ==
    LET n == FreshNode(H)
        raw == [item |-> NULL, lchild |-> NULL, rchild |-> NULL,
                balance |-> 0, height |-> 0]
    IN  [heap |-> NODE_SET_LEAF(H @@ (n :> raw), n), ret |-> n]

rotateLeft(H, root) ==
    IF root = NULL THEN [heap |-> H, ret |-> NULL]
    ELSE LET newroot == H[root].rchild IN
         IF newroot # NULL
         THEN LET H1 == [H EXCEPT ![root].rchild = H[newroot].lchild]
                  H2 == Node_updateHeight(H1, root)
                  H3 == [H2 EXCEPT ![newroot].lchild = root]
                  H4 == Node_updateHeight(H3, newroot)
                  H5 == NODE_UPDATE_BALANCE(H4, root)
                  H6 == NODE_UPDATE_BALANCE(H5, newroot)
              IN  [heap |-> H6, ret |-> newroot]
         ELSE [heap |-> H, ret |-> root]

rotateRight(H, root) ==
    IF root = NULL THEN [heap |-> H, ret |-> NULL]
    ELSE LET newroot == H[root].lchild IN
         IF newroot # NULL
         THEN LET H1 == [H EXCEPT ![root].lchild = H[newroot].rchild]
                  H2 == Node_updateHeight(H1, root)
                  H3 == [H2 EXCEPT ![newroot].rchild = root]
                  H4 == Node_updateHeight(H3, newroot)
                  H5 == NODE_UPDATE_BALANCE(H4, root)
                  H6 == NODE_UPDATE_BALANCE(H5, newroot)
              IN  [heap |-> H6, ret |-> newroot]
         ELSE [heap |-> H, ret |-> root]

(***************************************************************************)
(* Insertion.  Every Node-level operator returns the heap it leaves, the   *)
(* pointer it returns and whether the error indicator is set on return.    *)
(***************************************************************************)
\* InsertEqual, had it stored the new item in place of the one found.
InsertEqual_overwrite(H, root, new) ==
    [heap |-> [H EXCEPT ![root].item = H[new].item], ret |-> root, err |-> FALSE]

\* case 0 of Node_insert: the item is already in the tree.
InsertEqual(H, root, new) == [heap |-> H, ret |-> root, err |-> FALSE]

\* InsertFixLeft without the left-right case: always the single rotation.
InsertFixLeft_single(H, root, child_height) ==
    IF child_height = H[H[root].lchild].height
    THEN [heap |-> H, ret |-> root]
    ELSE LET H1 == NODE_UPDATE_BALANCE(Node_updateHeight(H, root), root) IN
         IF H1[root].balance > -2
         THEN [heap |-> H1, ret |-> root]
         ELSE rotateRight(H1, root)

\* The unwinding of a left descent of Node_insert, the child being attached.
InsertFixLeft(H, root, child_height) ==
    IF child_height = H[H[root].lchild].height
    THEN [heap |-> H, ret |-> root]
    ELSE LET H1 == NODE_UPDATE_BALANCE(Node_updateHeight(H, root), root) IN
         IF H1[root].balance > -2
         THEN [heap |-> H1, ret |-> root]
         ELSE LET rot == IF H1[H1[root].lchild].balance = 1
                         THEN rotateLeft(H1, H1[root].lchild)
                         ELSE [heap |-> H1, ret |-> H1[root].lchild]
                  H2  == [rot.heap EXCEPT ![root].lchild = rot.ret]
              IN  rotateRight(H2, root)

\* InsertFixRight rebalancing one step late, at balance 3.
InsertFixRight_late(H, root, child_height) ==
    IF child_height = H[H[root].rchild].height
    THEN [heap |-> H, ret |-> root]
    ELSE LET H1 == NODE_UPDATE_BALANCE(Node_updateHeight(H, root), root) IN
         IF H1[root].balance <= 2
         THEN [heap |-> H1, ret |-> root]
         ELSE LET rot == IF H1[H1[root].rchild].balance = -1
                         THEN rotateRight(H1, H1[root].rchild)
                         ELSE [heap |-> H1, ret |-> H1[root].rchild]
                  H2  == [rot.heap EXCEPT ![root].rchild = rot.ret]
              IN  rotateLeft(H2, root)

\* The unwinding of a right descent of Node_insert.
InsertFixRight(H, root, child_height) ==
    IF child_height = H[H[root].rchild].height
    THEN [heap |-> H, ret |-> root]
    ELSE LET H1 == NODE_UPDATE_BALANCE(Node_updateHeight(H, root), root) IN
         IF H1[root].balance < 2
         THEN [heap |-> H1, ret |-> root]
         ELSE LET rot == IF H1[H1[root].rchild].balance = -1
                         THEN rotateRight(H1, H1[root].rchild)
                         ELSE [heap |-> H1, ret |-> H1[root].rchild]
                  H2  == [rot.heap EXCEPT ![root].rchild = rot.ret]
              IN  rotateLeft(H2, root)

RECURSIVE Node_insert(_, _, _, _, _)
Node_insert(H, root, new, d, env) ==
    IF root = NULL THEN [heap |-> H, ret |-> new, err |-> FALSE]
    ELSE
    LET c == PyObject_Compare(H[root].item, H[new].item, d, env) IN
    CASE c.val = 0 -> [InsertEqual(H, root, new) EXCEPT !.err = c.err]
      [] c.val = 1 ->
           IF Py_EnterRecursiveCall(d, env)
           THEN [heap |-> H, ret |-> NULL, err |-> TRUE]
           ELSE LET child_height == heightOf(H, H[root].lchild)
                    sub == Node_insert(H, H[root].lchild, new, d + 1, env)
                    H1  == [sub.heap EXCEPT ![root].lchild = sub.ret]
                    e   == c.err \/ sub.err
                IN  IF sub.ret = NULL
                    THEN [heap |-> H1, ret |-> NULL, err |-> e]
                    ELSE LET fix == InsertFixLeft(H1, root, child_height)
                         IN  [heap |-> fix.heap, ret |-> fix.ret, err |-> e]
      [] c.val = -1 ->
           IF Py_EnterRecursiveCall(d, env)
           THEN [heap |-> H, ret |-> NULL, err |-> TRUE]
           ELSE LET child_height == heightOf(H, H[root].rchild)
                    sub == Node_insert(H, H[root].rchild, new, d + 1, env)
                    H1  == [sub.heap EXCEPT ![root].rchild = sub.ret]
                    e   == c.err \/ sub.err
                IN  IF sub.ret = NULL
                    THEN [heap |-> H1, ret |-> NULL, err |-> e]
                    ELSE LET fix == InsertFixRight(H1, root, child_height)
                         IN  [heap |-> fix.heap, ret |-> fix.ret, err |-> e]
      [] OTHER -> [heap |-> H, ret |-> NULL, err |-> c.err]

\* The result of a tree method: the heap, the tree's root afterwards, what the
\* method returns ("None", "NULL" or "Node" with the node) and the error flag.
BinaryTree_insert(H, selfroot, new, env) ==
    LET nn  == Node_new(H)
        H0  == [nn.heap EXCEPT ![nn.ret].item = new]
        ins == Node_insert(H0, selfroot, nn.ret, 0, env)
    IN  [heap |-> ins.heap, root |-> ins.ret,
         ret |-> IF ins.ret = NULL THEN "NULL" ELSE "None",
         node |-> NULL, err |-> ins.err]

(***************************************************************************)
(* Removal                                                                 *)
(***************************************************************************)
\* The rightmost node of the subtree at rm (the loop of the two-children case).
RECURSIVE Rightmost(_, _)
\* Rightmost, had the loop followed the left links.
RECURSIVE Rightmost_left(_, _)
Rightmost_left(H, rm) ==
    IF H[rm].lchild # NULL THEN Rightmost_left(H, H[rm].lchild) ELSE rm

Rightmost(H, rm) == IF H[rm].rchild # NULL THEN Rightmost(H, H[rm].rchild) ELSE rm

\* The only child of root, NULL when root has none or two.
OnlyChild(H, root) ==
    IF H[root].lchild # NULL
    THEN (IF H[root].rchild = NULL THEN H[root].lchild ELSE NULL)
    ELSE (IF H[root].rchild # NULL THEN H[root].rchild ELSE NULL)

\* RemoveOneChild, had root dropped the child but kept its height and balance.
RemoveOneChild_links(H, root, rm) ==
    [H EXCEPT ![root].item = H[rm].item, ![root].lchild = NULL,
              ![root].rchild = NULL]

\* RemoveOneChild, had root kept its own item.
RemoveOneChild_keep(H, root, rm) == NODE_SET_LEAF(H, root)

\* The one-child case: root takes the child's item and becomes a leaf.
RemoveOneChild(H, root, rm) ==
    NODE_SET_LEAF([H EXCEPT ![root].item = H[rm].item], root)

\* RemoveSwap without the loop: the swap is with the left child itself.
RemoveSwap_noloop(H, root) ==
    LET rm == H[root].lchild IN
    [H EXCEPT ![rm].item = H[root].item, ![root].item = H[rm].item]

\* The two-children case: root and its in-order predecessor swap items.
RemoveSwap(H, root) ==
    LET rm == Rightmost(H, H[root].lchild) IN
    [H EXCEPT ![rm].item = H[root].item, ![root].item = H[rm].item]

\* RemoveFixRight choosing by the sign alone: the double rotation unless the
\* left child leans left.
RemoveFixRight_sign(H, root, child_height) ==
    LET H1 == NODE_UPDATE_BALANCE(Node_updateHeight(H, root), root) IN
    IF H1[root].rchild # NULL /\ child_height = H1[H1[root].rchild].height
    THEN [heap |-> H1, ret |-> root]
    ELSE IF H1[root].balance > -2
    THEN [heap |-> H1, ret |-> root]
    ELSE IF H1[H1[root].lchild].balance = -1
    THEN rotateRight(H1, root)
    ELSE LET rot == rotateLeft(H1, H1[root].lchild)
             H2  == [rot.heap EXCEPT ![root].lchild = rot.ret]
         IN  rotateRight(H2, root)

\* The unwinding of a right descent of Node_remove, the child being attached.
RemoveFixRight(H, root, child_height) ==
    LET H1 == NODE_UPDATE_BALANCE(Node_updateHeight(H, root), root) IN
    IF H1[root].rchild # NULL /\ child_height = H1[H1[root].rchild].height
    THEN [heap |-> H1, ret |-> root]
    ELSE IF H1[root].balance > -2
    THEN [heap |-> H1, ret |-> root]
    ELSE IF H1[H1[root].lchild].balance # 1
    THEN rotateRight(H1, root)
    ELSE LET rot == rotateLeft(H1, H1[root].lchild)
             H2  == [rot.heap EXCEPT ![root].lchild = rot.ret]
         IN  rotateRight(H2, root)

\* RemoveFixLeft rebalancing one step early, at balance 1.
RemoveFixLeft_early(H, root, child_height) ==
    LET H1 == NODE_UPDATE_BALANCE(Node_updateHeight(H, root), root) IN
    IF H1[root].lchild # NULL /\ child_height = H1[H1[root].lchild].height
    THEN [heap |-> H1, ret |-> root]
    ELSE IF H1[root].balance < 1
    THEN [heap |-> H1, ret |-> root]
    ELSE IF H1[H1[root].rchild].balance # -1
    THEN rotateLeft(H1, root)
    ELSE LET rot == rotateRight(H1, H1[root].rchild)
             H2  == [rot.heap EXCEPT ![root].rchild = rot.ret]
         IN  rotateLeft(H2, root)

\* The unwinding of a left descent of Node_remove.
RemoveFixLeft(H, root, child_height) ==
    LET H1 == NODE_UPDATE_BALANCE(Node_updateHeight(H, root), root) IN
    IF H1[root].lchild # NULL /\ child_height = H1[H1[root].lchild].height
    THEN [heap |-> H1, ret |-> root]
    ELSE IF H1[root].balance < 2
    THEN [heap |-> H1, ret |-> root]
    ELSE IF H1[H1[root].rchild].balance # -1
    THEN rotateLeft(H1, root)
    ELSE LET rot == rotateRight(H1, H1[root].rchild)
             H2  == [rot.heap EXCEPT ![root].rchild = rot.ret]
         IN  rotateLeft(H2, root)

\* errIn: whether the error indicator is set when the call is made.
RECURSIVE Node_remove(_, _, _, _, _, _)
Node_remove(H, root, target, d, env, errIn) ==
    IF root = NULL THEN [heap |-> H, ret |-> NULL, err |-> errIn]
    ELSE
    LET c    == PyObject_Compare(H[root].item, target, d, env)
        e    == errIn \/ c.err
        rm   == OnlyChild(H, root)
        \* cmp and the heap at the test "cmp != 1" that precedes the left descent
        cmp  == IF c.val = 0 THEN 1 ELSE c.val
        HL   == IF c.val = 0 THEN RemoveSwap(H, root) ELSE H
    IN
    IF c.val = 0 /\ NODE_IS_LEAF(H, root)
    THEN [heap |-> H, ret |-> NULL, err |-> e]
    ELSE IF c.val = 0 /\ rm # NULL
    THEN [heap |-> RemoveOneChild(H, root, rm), ret |-> root, err |-> e]
    ELSE IF c.val = -1
    THEN IF Py_EnterRecursiveCall(d, env)
         THEN [heap |-> H, ret |-> NULL, err |-> TRUE]
         ELSE LET child_height == heightOf(H, H[root].rchild)
                  sub == Node_remove(H, H[root].rchild, target, d + 1, env, e)
                  H1  == [sub.heap EXCEPT ![root].rchild = sub.ret]
              IN  IF sub.ret = NULL /\ sub.err
                  THEN [heap |-> H1, ret |-> NULL, err |-> TRUE]
                  ELSE LET fix == RemoveFixRight(H1, root, child_height)
                       IN  [heap |-> fix.heap, ret |-> fix.ret, err |-> sub.err]
    ELSE IF cmp # 1
    THEN [heap |-> H, ret |-> NULL, err |-> e]
    ELSE IF Py_EnterRecursiveCall(d, env)
         THEN [heap |-> HL, ret |-> NULL, err |-> TRUE]
         ELSE LET child_height == heightOf(HL, HL[root].lchild)
                  sub == Node_remove(HL, HL[root].lchild, target, d + 1, env, e)
                  H1  == [sub.heap EXCEPT ![root].lchild = sub.ret]
              IN  IF sub.ret = NULL /\ sub.err
                  THEN [heap |-> H1, ret |-> NULL, err |-> TRUE]
                  ELSE LET fix == RemoveFixLeft(H1, root, child_height)
                       IN  [heap |-> fix.heap, ret |-> fix.ret, err |-> sub.err]

\* Where Node_remove, called on the subtree at root with comparisons that
\* succeed, stops descending: the node it finds holding target as a leaf or
\* with one child (after the swap of the two-children case, if it makes one),
\* with the heap at that moment; NULL when target is not there.
RECURSIVE RemovalSite(_, _, _)
RemovalSite(H, root, target) ==
    IF root = NULL THEN [heap |-> H, node |-> NULL]
    ELSE
    LET c == PyObject_Compare(H[root].item, target, 0, NoFailure) IN
    IF c.val = 0 /\ (NODE_IS_LEAF(H, root) \/ OnlyChild(H, root) # NULL)
    THEN [heap |-> H, node |-> root]
    ELSE IF c.val = 0
    THEN RemovalSite(RemoveSwap(H, root), H[root].lchild, target)
    ELSE IF c.val = -1
    THEN RemovalSite(H, H[root].rchild, target)
    ELSE RemovalSite(H, H[root].lchild, target)

\* BinaryTree_remove, had it kept the old root when Node_remove returns NULL.
BinaryTree_remove_keeproot(H, selfroot, target, env) ==
    LET rem == Node_remove(H, selfroot, target, 0, env, FALSE) IN
    [heap |-> rem.heap, root |-> IF rem.ret = NULL THEN selfroot ELSE rem.ret,
     ret |-> IF rem.ret = NULL /\ rem.err THEN "NULL" ELSE "None",
     node |-> NULL, err |-> rem.err]

BinaryTree_remove(H, selfroot, target, env) ==
    LET rem == Node_remove(H, selfroot, target, 0, env, FALSE) IN
    [heap |-> rem.heap, root |-> rem.ret,
     ret |-> IF rem.ret = NULL /\ rem.err THEN "NULL" ELSE "None",
     node |-> NULL, err |-> rem.err]

(***************************************************************************)
(* Lookup and traversal                                                    *)
(***************************************************************************)
\* The loop of BinaryTree_locate, `current` being the node it has reached.
RECURSIVE LocateFrom(_, _, _, _, _)
LocateFrom(H, current, target, d, env) ==
    IF current = NULL THEN [ret |-> "None", node |-> NULL, err |-> FALSE]
    ELSE
    LET c == PyObject_Compare(H[current].item, target, d, env) IN
    CASE c.val = 0  -> [ret |-> "Node", node |-> current, err |-> c.err]
      [] c.val = 1  -> [LocateFrom(H, H[current].lchild, target, d + 1, env)
                            EXCEPT !.err = @ \/ c.err]
      [] c.val = -1 -> [LocateFrom(H, H[current].rchild, target, d + 1, env)
                            EXCEPT !.err = @ \/ c.err]
      [] OTHER      -> [ret |-> "NULL", node |-> NULL, err |-> c.err]

BinaryTree_locate(H, selfroot, target, env) ==
    LET loc == LocateFrom(H, selfroot, target, 0, env) IN
    [heap |-> H, root |-> selfroot, ret |-> loc.ret, node |-> loc.node,
     err |-> loc.err]

\* The items in the order Node_inOrder hands them to a visitor that never fails.
RECURSIVE Node_inOrder(_, _)
Node_inOrder(H, root) ==
    IF root = NULL THEN <<>>
    ELSE Node_inOrder(H, H[root].lchild) \o <<H[root].item>>
             \o Node_inOrder(H, H[root].rchild)

\* The same for Node_preOrder: this node first, then the left and the right
\* subtree.
RECURSIVE Node_preOrder(_, _)
Node_preOrder(H, root) ==
    IF root = NULL THEN <<>>
    ELSE <<H[root].item>> \o Node_preOrder(H, H[root].lchild)
             \o Node_preOrder(H, H[root].rchild)

\* Node_postOrder, had it gone down the children with Node_preOrder.
Node_postOrder_pre(H, root) ==
    IF root = NULL THEN <<>>
    ELSE Node_preOrder(H, H[root].lchild) \o Node_preOrder(H, H[root].rchild)
             \o <<H[root].item>>

\* The same for Node_postOrder: the left and the right subtree, then this node.
RECURSIVE Node_postOrder(_, _)
Node_postOrder(H, root) ==
    IF root = NULL THEN <<>>
    ELSE Node_postOrder(H, H[root].lchild) \o Node_postOrder(H, H[root].rchild)
             \o <<H[root].item>>

\* The traversal methods, called with a visitor that never fails: they return
\* None and leave the tree alone; seen is what the visitor was applied to.
BinaryTree_inOrder(H, selfroot) ==
    [heap |-> H, root |-> selfroot, ret |-> "None", node |-> NULL, err |-> FALSE,
     seen |-> Node_inOrder(H, selfroot)]

BinaryTree_preOrder(H, selfroot) ==
    [heap |-> H, root |-> selfroot, ret |-> "None", node |-> NULL, err |-> FALSE,
     seen |-> Node_preOrder(H, selfroot)]

BinaryTree_postOrder(H, selfroot) ==
    [heap |-> H, root |-> selfroot, ret |-> "None", node |-> NULL, err |-> FALSE,
     seen |-> Node_postOrder(H, selfroot)]

\* The nodes of the subtree at root.
RECURSIVE NodesOf(_, _)
NodesOf(H, root) ==
    IF root = NULL THEN {}
    ELSE {root} \cup NodesOf(H, H[root].lchild) \cup NodesOf(H, H[root].rchild)

(***************************************************************************)
(* Subtrees                                                                *)
(***************************************************************************)
\* The root a Subtree made by the left_child / right_child getter refers to.
Node_lchild(H, self) == H[self].lchild

Node_rchild(H, self) == H[self].rchild

RECURSIVE Node_copytree(_, _, _, _)
Node_copytree(H, root, d, env) ==
    LET nn      == Node_new(H)
        newroot == nn.ret
        H0      == [nn.heap EXCEPT ![newroot] = H[root]]
    IN
    IF H0[newroot].lchild # NULL /\ Py_EnterRecursiveCall(d, env)
    THEN [heap |-> H0, ret |-> NULL]
    ELSE
    LET L  == IF H0[newroot].lchild # NULL
              THEN Node_copytree(H0, H0[newroot].lchild, d + 1, env)
              ELSE [heap |-> H0, ret |-> NULL]
        H1 == [L.heap EXCEPT ![newroot].lchild = L.ret]
    IN
    IF H0[newroot].lchild # NULL /\ L.ret = NULL
    THEN [heap |-> H1, ret |-> NULL]
    ELSE IF H1[newroot].rchild # NULL /\ Py_EnterRecursiveCall(d, env)
    THEN [heap |-> H1, ret |-> NULL]
    ELSE
    LET R  == IF H1[newroot].rchild # NULL
              THEN Node_copytree(H1, H1[newroot].rchild, d + 1, env)
              ELSE [heap |-> H1, ret |-> NULL]
        H2 == [R.heap EXCEPT ![newroot].rchild = R.ret]
    IN
    IF H1[newroot].rchild # NULL /\ R.ret = NULL
    THEN [heap |-> H2, ret |-> NULL]
    ELSE [heap |-> H2, ret |-> newroot]

\* The new BinaryTree of make_tree.  Its root field is assigned only when the
\* Subtree has a root; otherwise it keeps what the memory held, `junk`.
Subtree_maketree(H, selfroot, junk, env) ==
    IF selfroot # NULL
    THEN LET c == Node_copytree(H, selfroot, 0, env)
         IN  [heap |-> c.heap, root |-> c.ret, init |-> TRUE]
    ELSE [heap |-> H, root |-> junk, init |-> FALSE]

(***************************************************************************)
(* The program state: the nodes alive (heap), a BinaryTree (root), the     *)
(* Subtree last taken of a node (view), the BinaryTree last made of a      *)
(* Subtree (copy), what the last call did (last) and the state it was made *)
(* in (pre).  aset is the abstract set the first tree stands for; hist is  *)
(* the sequence of calls made, kept by the scripted runs; seen is the       *)
(* sequence of items the last call applied its visitor to.                 *)
(***************************************************************************)
VARIABLES heap, root, view, copy, aset, last, pre, hist, seen

vars == <<heap, root, view, copy, aset, last, pre, hist, seen>>

EmptyHeap == [n \in {} |-> NULL]

NoView == [live |-> FALSE, root |-> NULL]

NoCopy == [live |-> FALSE, root |-> NULL, init |-> FALSE]

\* Reference counting: the nodes that nothing reaches any more are freed.
Collect(H, roots) ==
    LET live == UNION {NodesOf(H, r) : r \in roots}
    IN  [n \in live |-> H[n]]

Snapshot == [heap |-> heap, root |-> root, view |-> view, copy |-> copy]

Init ==
    /\ heap = EmptyHeap
    /\ root = NULL
    /\ view = NoView
    /\ copy = NoCopy
    /\ aset = {}
    /\ last = [op |-> "new", tree |-> "main", arg |-> 0, ret |-> "None",
               node |-> NULL, err |-> FALSE]
    /\ pre = [heap |-> EmptyHeap, root |-> NULL, view |-> NoView, copy |-> NoCopy]
    /\ hist = <<>>
    /\ seen = <<>>

\* A call of method op of the first tree, r being what the method computes.
Call(op, x, r) ==
    /\ root' = r.root
    /\ heap' = Collect(r.heap, {r.root, view.root, copy.root})
    /\ last' = [op |-> op, tree |-> "main", arg |-> x, ret |-> r.ret,
                node |-> r.node, err |-> r.err]
    /\ pre'  = Snapshot
    /\ seen' = <<>>
    /\ UNCHANGED <<view, copy>>

DoInsert(x, env) ==
    LET r == BinaryTree_insert(heap, root, x, env) IN
    /\ Call("insert", x, r)
    /\ aset' = IF r.ret = "None" THEN aset \cup {KeyOf(x)} ELSE aset

DoRemove(x, env) ==
    LET r == BinaryTree_remove(heap, root, x, env) IN
    /\ Call("remove", x, r)
    /\ aset' = IF r.ret = "None" THEN aset \ {KeyOf(x)} ELSE aset

DoLocate(x, env) ==
    /\ Call("locate", x, BinaryTree_locate(heap, root, x, env))
    /\ aset' = aset

Insert(x) == DoInsert(x, NoFailure) /\ UNCHANGED hist

Remove(x) == DoRemove(x, NoFailure) /\ UNCHANGED hist

Locate(x) == DoLocate(x, NoFailure) /\ UNCHANGED hist

Next ==
    \/ \E x \in Objects : Insert(x)
    \/ \E x \in Objects : Remove(x)
    \/ \E x \in Objects : Locate(x)

Spec == Init /\ [][Next]_vars

(***************************************************************************)
(* Scripted runs: the calls of the two scenarios, made in their order on a *)
(* new tree, each run free to go on with up to MaxExtra other calls.       *)
(***************************************************************************)
\* Number of calls a run may make after it leaves the scripts.
MaxExtra == 1

Ins(x) == [op |-> "insert", arg |-> x]

Rem(x) == [op |-> "remove", arg |-> x]

InsertOrder7 == <<4, 2, 6, 1, 3, 5, 7>>

Ascending == <<1, 2, 3, 4, 5>>

Script7 == [i \in 1..Len(InsertOrder7) |-> Ins(InsertOrder7[i])] \o <<Rem(4)>>

Script8 == [i \in 1..Len(Ascending) |-> Ins(Ascending[i])]

\* The first k calls of a script.
Prefix(s, k) == SubSeq(s, 1, k)

Scripts == {Script7, Script8}

RunItems == UNION {{s[i].arg : i \in 1..Len(s)} : s \in Scripts}

OnScript(h) == \E s \in Scripts : Len(h) <= Len(s) /\ h = SubSeq(s, 1, Len(h))

Allowed(h) ==
    \E k \in 0..Len(h) : Len(h) - k <= MaxExtra /\ OnScript(SubSeq(h, 1, k))

RunInsert(x) ==
    /\ Allowed(Append(hist, Ins(x)))
    /\ DoInsert(x, NoFailure)
    /\ hist' = Append(hist, Ins(x))

RunRemove(x) ==
    /\ Allowed(Append(hist, Rem(x)))
    /\ DoRemove(x, NoFailure)
    /\ hist' = Append(hist, Rem(x))

NextRun ==
    \/ \E x \in RunItems : RunInsert(x)
    \/ \E x \in RunItems : RunRemove(x)

SpecRun == Init /\ [][NextRun]_vars

(***************************************************************************)
(* Runs with a failing call.  PyObject_Compare raises at one depth of the  *)
(* descent, returning a value its documentation leaves undefined, or the   *)
(* interpreter's recursion limit is reached at one depth.  A run is        *)
(* followed up to its first call that ends with the error indicator set.   *)
(***************************************************************************)
\* What PyObject_Compare may return when the comparison raises: -1, 0 and 1
\* read as an order by the callers, 2 standing for every other value.
CmpErrorResults == {-1, 0, 1, 2}

Depths == 0..MaxItem

Failures ==
    {[cmpFailAt |-> d, cmpFailRes |-> v, depthLeft |-> -1] :
        d \in Depths, v \in CmpErrorResults}
    \cup {[cmpFailAt |-> -1, cmpFailRes |-> 0, depthLeft |-> d] : d \in Depths}

InsertFails(x, env) == ~last.err /\ DoInsert(x, env) /\ UNCHANGED hist

RemoveFails(x, env) == ~last.err /\ DoRemove(x, env) /\ UNCHANGED hist

LocateFails(x, env) == ~last.err /\ DoLocate(x, env) /\ UNCHANGED hist

NextErr ==
    \/ \E x \in Objects, env \in Failures : InsertFails(x, env)
    \/ \E x \in Objects, env \in Failures : RemoveFails(x, env)
    \/ \E x \in Objects, env \in Failures : LocateFails(x, env)

SpecErr == Init /\ [][NextErr]_vars

(***************************************************************************)
(* Runs with Subtrees: the left_child and right_child of any live node,    *)
(* make_tree on the Subtree last taken, insert and remove on the tree      *)
(* make_tree returned.                                                     *)
(***************************************************************************)
TakeView(op, n, r) ==
    /\ view' = [live |-> TRUE, root |-> r]
    /\ heap' = Collect(heap, {root, r, copy.root})
    /\ last' = [op |-> op, tree |-> "main", arg |-> n, ret |-> "Subtree",
                node |-> r, err |-> FALSE]
    /\ pre'  = Snapshot
    /\ seen' = <<>>
    /\ UNCHANGED <<root, copy, aset, hist>>

LeftChild(n) == TakeView("left_child", n, Node_lchild(heap, n))

RightChild(n) == TakeView("right_child", n, Node_rchild(heap, n))

\* junk: what the memory of the new tree's root field holds before the call.
MakeTree(junk) ==
    /\ view.live
    /\ LET r == Subtree_maketree(heap, view.root, junk, NoFailure) IN
       /\ copy' = [live |-> TRUE, root |-> r.root, init |-> r.init]
       /\ heap' = Collect(r.heap, {root, view.root, r.root})
       /\ last' = [op |-> "make_tree", tree |-> "view", arg |-> 0, ret |-> "Tree",
                   node |-> r.root, err |-> FALSE]
    /\ pre' = Snapshot
    /\ hist' = <<>>
    /\ seen' = <<>>
    /\ UNCHANGED <<root, view, aset>>

\* The made tree can be used: its root field holds NULL or what the program
\* has put there.  With a leftover pointer in it every use is undefined.
CopyUsable == copy.live /\ (copy.init \/ copy.root = NULL)

\* Largest item of the runs with Subtrees, and the number of calls they make
\* on a made tree (hist keeps these calls).
MaxCopyItem == 3

MaxCopyCalls == 2

CopyItems == 1..MaxCopyItem

\* A call of method op of the made tree.
CallCopy(op, x, r) ==
    /\ CopyUsable
    /\ Len(hist) < MaxCopyCalls
    /\ copy' = [live |-> TRUE, root |-> r.root, init |-> TRUE]
    /\ heap' = Collect(r.heap, {root, view.root, r.root})
    /\ last' = [op |-> op, tree |-> "copy", arg |-> x, ret |-> r.ret,
                node |-> r.node, err |-> r.err]
    /\ pre'  = Snapshot
    /\ hist' = Append(hist, [op |-> op, arg |-> x])
    /\ seen' = <<>>
    /\ UNCHANGED <<root, view, aset>>

CopyInsert(x) == CallCopy("insert", x, BinaryTree_insert(heap, copy.root, x, NoFailure))

CopyRemove(x) == CallCopy("remove", x, BinaryTree_remove(heap, copy.root, x, NoFailure))

\* The first tree is built before any Subtree is taken of it, and one tree is
\* made of the Subtree last taken.
Building == ~view.live /\ ~copy.live

NextCopy ==
    \/ \E x \in CopyItems : Building /\ Insert(x)
    \/ \E x \in CopyItems : Building /\ Remove(x)
    \/ \E n \in DOMAIN heap : ~copy.live /\ LeftChild(n)
    \/ \E n \in DOMAIN heap : ~copy.live /\ RightChild(n)
    \/ \E junk \in {NULL} \cup DOMAIN heap : ~copy.live /\ MakeTree(junk)
    \/ \E x \in CopyItems : CopyInsert(x)
    \/ \E x \in CopyItems : CopyRemove(x)

SpecCopy == Init /\ [][NextCopy]_vars

(***************************************************************************)
(* Runs mixing insert and remove: every sequence of the two calls over the *)
(* items 1..MaxMixItem, and beside them one run that builds a tree of      *)
(* eight nodes, call by call, and then makes one remove on it.  Any of the *)
(* three traversals can be called between two calls of a run.              *)
(***************************************************************************)
\* Largest item of the runs mixing insert and remove.
MaxMixItem == 4

MixItems == 1..MaxMixItem

\* The eight inserts of the longer run; none of them rotates.  They leave
\*            6
\*        3       7
\*      2   4       8
\*     1      5
InsertOrder8 == <<6, 3, 7, 2, 4, 8, 1, 5>>

Script9 == [i \in 1..Len(InsertOrder8) |-> Ins(InsertOrder8[i])]

DeepItems == {InsertOrder8[i] : i \in 1..Len(InsertOrder8)}

MixInsert(x) == hist = <<>> /\ Insert(x)

MixRemove(x) == hist = <<>> /\ Remove(x)

\* The next insert of the longer run, which starts on an empty tree.
DeepInsert ==
    /\ hist = <<>> => root = NULL
    /\ Len(hist) < Len(Script9) /\ hist = Prefix(Script9, Len(hist))
    /\ DoInsert(Script9[Len(hist) + 1].arg, NoFailure)
    /\ hist' = Append(hist, Script9[Len(hist) + 1])

\* The remove that ends the longer run.
DeepRemove(x) ==
    /\ hist = Script9
    /\ DoRemove(x, NoFailure)
    /\ hist' = Append(hist, Rem(x))

\* A call of traversal method op of the first tree, r being what it computes.
Walk(op, r) ==
    /\ root' = r.root
    /\ heap' = r.heap
    /\ last' = [op |-> op, tree |-> "main", arg |-> 0, ret |-> r.ret,
                node |-> r.node, err |-> r.err]
    /\ pre'  = Snapshot
    /\ seen' = r.seen
    /\ UNCHANGED <<view, copy, aset, hist>>

InOrder == Walk("in_order", BinaryTree_inOrder(heap, root))

PreOrder == Walk("pre_order", BinaryTree_preOrder(heap, root))

PostOrder == Walk("post_order", BinaryTree_postOrder(heap, root))

NextMix ==
    \/ \E x \in MixItems : MixInsert(x)
    \/ \E x \in MixItems : MixRemove(x)
    \/ DeepInsert
    \/ \E x \in DeepItems : DeepRemove(x)
    \/ InOrder
    \/ PreOrder
    \/ PostOrder

SpecMix == Init /\ [][NextMix]_vars

(***************************************************************************)
(* What the claims speak of                                                *)
(***************************************************************************)
\* The stored fields of node n agree with the stored heights of its children.
NodeConsistent(H, n) ==
    /\ H[n].balance = heightOf(H, H[n].rchild) - heightOf(H, H[n].lchild)
    /\ H[n].balance \in {-1, 0, 1}
    /\ H[n].height = 1 + Max(heightOf(H, H[n].lchild), heightOf(H, H[n].rchild))

AVLTree(H, r) == \A n \in NodesOf(H, r) : NodeConsistent(H, n)

KeySeq(items) == [i \in 1..Len(items) |-> KeyOf(items[i])]

StrictlyIncreasing(ks) == \A i \in 1..(Len(ks) - 1) : ks[i] < ks[i + 1]

KeysOf(H, r) == {KeyOf(H[n].item) : n \in NodesOf(H, r)}

\* The nodes of the tree at r with all their fields.
TreeState(H, r) == [n \in NodesOf(H, r) |-> H[n]]

\* The node of the tree the last call was made on that held an item equal to
\* the call's argument, as a set (empty when there was none).
PreHolders == {n \in NodesOf(pre.heap, pre.root) :
                  KeyOf(pre.heap[n].item) = KeyOf(last.arg)}

\* C1: after each insert (duplicates included) every node's stored balance is
\* height(right) - height(left) and lies within -1..1, and every node's stored
\* height is 1 + max(height(left), height(right)), a missing child counting 0.
C1_InsertKeepsAVL == last.op = "insert" => AVLTree(heap, root)

\* An insert that rebalanced: a rotation gave the tree a new root.
C1_Witness ==
    /\ last.op = "insert"
    /\ pre.root # NULL /\ root # pre.root
    /\ heap[root].height = 2 /\ heap[root].balance = 0

\* C2: in every reachable tree the in-order traversal yields the items in
\* strictly increasing comparator order, so with no duplicates.
C2_InOrderSorted == StrictlyIncreasing(KeySeq(Node_inOrder(heap, root)))

\* A remove of an item held by a node with two children, whose in-order
\* predecessor lies below its left child.
C2_Witness ==
    /\ last.op = "remove"
    /\ \E n \in PreHolders :
          /\ pre.heap[n].lchild # NULL /\ pre.heap[n].rchild # NULL
          /\ pre.heap[pre.heap[n].lchild].rchild # NULL
    /\ KeyOf(last.arg) \notin KeysOf(heap, root)

\* C3: locate(x) returns a node holding an item equal to x iff x was inserted
\* and not removed since, and None otherwise: the tree and the abstract set
\* (insert = add, remove = discard) agree on every x.
C3_LocateIffMember ==
    \A x \in Objects :
        LET loc == BinaryTree_locate(heap, root, x, NoFailure) IN
        /\ (loc.ret = "Node") <=> (KeyOf(x) \in aset)
        /\ loc.ret = "Node" =>
              loc.node \in NodesOf(heap, root) /\ KeyOf(heap[loc.node].item) = KeyOf(x)
        /\ loc.ret # "Node" => loc.ret = "None"

\* A locate of an item that was removed, in a tree that holds others, and the
\* None it returns.
C3_Witness ==
    /\ last.op = "locate" /\ last.ret = "None"
    /\ root # NULL /\ heap[root].height = 2
    /\ KeyOf(last.arg) \notin aset

\* C4: once every inserted item has been removed (in whatever order) the tree
\* is empty: root is absent.
C4_RemoveAllEmpties == aset = {} => root = NULL /\ heap = EmptyHeap

\* The remove of the last item left.
C4_Witness ==
    /\ last.op = "remove" /\ aset = {}
    /\ pre.root # NULL /\ root = NULL

\* C5: an insert of an item equal to one in the tree reports success and
\* leaves the tree as it was: same root, same nodes with the same links,
\* heights, balances and items (the stored item is not replaced).
C5_DuplicateInsertNoOp ==
    (last.op = "insert" /\ PreHolders # {}) =>
        /\ last.ret = "None" /\ ~last.err
        /\ root = pre.root
        /\ TreeState(heap, root) = TreeState(pre.heap, pre.root)

\* An insert of an object equal to, but other than, the one a node below the
\* root holds.
C5_Witness ==
    /\ last.op = "insert"
    /\ \E n \in PreHolders : pre.heap[n].item # last.arg /\ n # pre.root

\* C6: a remove of a target that is not in the tree (the empty tree included)
\* reports success and leaves the tree as it was: same root, same nodes with
\* the same links, items, heights and balances.
C6_AbsentRemoveNoOp ==
    (last.op = "remove" /\ PreHolders = {}) =>
        /\ last.ret = "None" /\ ~last.err
        /\ root = pre.root
        /\ TreeState(heap, root) = TreeState(pre.heap, pre.root)

\* A remove of an absent target from a tree of height 2 that leans.
C6_Witness ==
    /\ last.op = "remove" /\ PreHolders = {}
    /\ pre.root # NULL /\ pre.heap[pre.root].height = 2
    /\ pre.heap[pre.root].balance # 0

\* The tree after the seven inserts 4,2,6,1,3,5,7: height 3, root item 4,
\* every balance 0.
After7Inserts ==
    hist = Prefix(Script7, 7) =>
        /\ root # NULL /\ heap[root].height = 3 /\ heap[root].item = 4
        /\ \A n \in NodesOf(heap, root) : heap[n].balance = 0

\* C7 as claimed: ... and removing 4 then makes the root item 5, the height
\* staying 3.
C7_ClaimedRootFive ==
    /\ After7Inserts
    /\ hist = Script7 =>
          root # NULL /\ heap[root].item = 5 /\ heap[root].height = 3

\* C7: inserting 4,2,6,1,3,5,7 into an empty tree gives a tree of height 3
\* whose root item is 4 and whose every node has balance 0; removing 4 then
\* makes the root item 3, the in-order predecessor, the height staying 3.
C7_RootIsPredecessor ==
    /\ After7Inserts
    /\ hist = Script7 =>
          root # NULL /\ heap[root].item = 3 /\ heap[root].height = 3

\* The tree after the scenario's last call, the remove of 4.
C7_Witness == hist = Script7 /\ last.op = "remove" /\ last.arg = 4

RootsClaimed == <<1, 1, 2, 2, 4>>

RootsSeen == <<1, 1, 2, 2, 2>>

\* C8 as claimed: inserting 1,2,3,4,5, the root item after each insertion is
\* 1,1,2,2,4.
C8_ClaimedRoots ==
    \A k \in 1..Len(Script8) :
        hist = Prefix(Script8, k) => root # NULL /\ heap[root].item = RootsClaimed[k]

\* C8: inserting 1,2,3,4,5 in ascending order into an empty tree, the root item
\* after each of the five insertions is 1,1,2,2,2 in that order.
C8_AscendingRoots ==
    \A k \in 1..Len(Script8) :
        hist = Prefix(Script8, k) => root # NULL /\ heap[root].item = RootsSeen[k]

\* The tree after the fifth insertion.
C8_Witness == hist = Script8 /\ last.op = "insert" /\ last.arg = 5

\* C9: make_tree on a Subtree, one whose root is absent included, returns a
\* tree built only of new nodes whose in-order sequence is the Subtree's, and
\* an insert or remove on that tree leaves the first tree's nodes, links,
\* items, heights and balances as they were.
C9_MakeTreeIndependent ==
    /\ last.op = "make_tree" =>
          /\ NodesOf(heap, copy.root) \cap DOMAIN pre.heap = {}
          /\ Node_inOrder(heap, copy.root) = Node_inOrder(pre.heap, pre.view.root)
    /\ (last.tree = "copy" /\ last.op \in {"insert", "remove"}) =>
          /\ root = pre.root
          /\ TreeState(heap, root) = TreeState(pre.heap, pre.root)

\* The links and items of the tree at r, without the cached fields.
Shape(H, r) ==
    [n \in NodesOf(H, r) |->
        [item |-> H[n].item, lchild |-> H[n].lchild, rchild |-> H[n].rchild]]

\* C10: an insert or remove during which the comparison raises or the depth
\* guard trips reports the failure (returns NULL) and leaves the tree in the
\* shape it had: same root, nodes, links and items, every item stored before
\* the call still being located after it.
C10_FailureKeepsTree ==
    (last.err /\ last.op \in {"insert", "remove"}) =>
        /\ last.ret = "NULL"
        /\ root = pre.root
        /\ Shape(heap, root) = Shape(pre.heap, pre.root)
        /\ \A n \in NodesOf(pre.heap, pre.root) :
              BinaryTree_locate(heap, root, pre.heap[n].item, NoFailure).ret = "Node"

\* C11: starting from an empty tree, after each call of any sequence mixing
\* insert and remove (removals of a leaf, of a node with one child and of a
\* node with two, rebalanced by the single or the double rotation the
\* sibling's balance selects) every node's stored balance is height(right) -
\* height(left) and lies within -1..1, and every node's stored height is
\* 1 + max(height(left), height(right)).
C11_MixedKeepsAVL == AVLTree(heap, root)

\* A remove that left the root two lower on its right than on its left while
\* the left child had balance 0 and grandchildren on both sides: the single
\* rotation made that child the root.
C11_Witness ==
    /\ last.op = "remove" /\ pre.root # NULL /\ root # pre.root /\ root # NULL
    /\ root = pre.heap[pre.root].lchild
    /\ pre.heap[root].balance = 0 /\ pre.heap[root].height = 3
    /\ heap[root].balance = 1

\* The nodes below n on its left and on its right.
LeftOf(H, n) == NodesOf(H, H[n].lchild)

RightOf(H, n) == NodesOf(H, H[n].rchild)

\* The place of item x in the sequence of visits.
Pos(visits, x) == CHOOSE i \in 1..Len(visits) : visits[i] = x

\* The items of the nodes of A are all visited before those of the nodes of B.
Precedes(visits, H, A, B) ==
    \A a \in A, b \in B : Pos(visits, H[a].item) < Pos(visits, H[b].item)

\* The visitor was applied to the item of each node of the tree once, and to
\* nothing else.
VisitsEachOnce(visits, H, r) ==
    /\ Len(visits) = Cardinality(NodesOf(H, r))
    /\ \A n \in NodesOf(H, r) :
          Cardinality({i \in 1..Len(visits) : visits[i] = H[n].item}) = 1

\* C12: on any reachable tree, with a visitor that never fails, in_order,
\* pre_order and post_order each return None, leave the tree as it was and
\* apply the visitor to every stored item exactly once; at every node the
\* visits go (left subtree, self, right subtree) for in_order, (self, left
\* subtree, right subtree) for pre_order and (left subtree, right subtree,
\* self) for post_order, which so is a post-order at every depth.
C12_TraversalOrders ==
    last.op \in {"in_order", "pre_order", "post_order"} =>
        /\ last.ret = "None" /\ ~last.err
        /\ root = pre.root /\ TreeState(heap, root) = TreeState(pre.heap, pre.root)
        /\ VisitsEachOnce(seen, heap, root)
        /\ \A n \in NodesOf(heap, root) :
              /\ Precedes(seen, heap, LeftOf(heap, n), RightOf(heap, n))
              /\ last.op = "in_order" =>
                    /\ Precedes(seen, heap, LeftOf(heap, n), {n})
                    /\ Precedes(seen, heap, {n}, RightOf(heap, n))
              /\ last.op = "pre_order" =>
                    /\ Precedes(seen, heap, {n}, LeftOf(heap, n))
                    /\ Precedes(seen, heap, {n}, RightOf(heap, n))
              /\ last.op = "post_order" =>
                    /\ Precedes(seen, heap, LeftOf(heap, n), {n})
                    /\ Precedes(seen, heap, RightOf(heap, n), {n})

\* A post_order of the tree of eight nodes, whose root has grandchildren and
\* great-grandchildren on its left.
C12_Witness ==
    /\ last.op = "post_order" /\ root # NULL
    /\ heap[root].height = 4 /\ Len(seen) = 8

\* The sequence of items without those equal to x.
Without(items, x) == SelectSeq(items, LAMBDA e : KeyOf(e) # KeyOf(x))

\* The node the last remove found holding its target, and that node's only
\* child at that moment (NULL when it had none: then the node was a leaf).
Site == RemovalSite(pre.heap, pre.root, last.arg)

SiteChild == IF Site.node = NULL THEN NULL ELSE OnlyChild(Site.heap, Site.node)

\* C13: in every tree reachable from the empty one by inserts and removes,
\* when remove finds its target in a node with exactly one child (at once or
\* after the swap of the two-children case), that child is a leaf, as the
\* assert of Node_remove demands; after the call the child is gone, the node
\* holds the child's item and is a leaf (height 1, no children, balance 0),
\* the tree holds the items it held but the target, and the node is where it
\* was: child of the same parent on the same side, or still the root.
C13_OneChildInPlace ==
    (last.op = "remove" /\ SiteChild # NULL) =>
        LET n == Site.node  rm == SiteChild IN
        /\ NODE_IS_LEAF(Site.heap, rm)
        /\ rm \notin NodesOf(heap, root)
        /\ n \in NodesOf(heap, root)
        /\ heap[n].item = pre.heap[rm].item
        /\ NODE_IS_LEAF(heap, n)
        /\ Node_inOrder(heap, root) = Without(Node_inOrder(pre.heap, pre.root), last.arg)
        /\ n = pre.root => root = n
        /\ \A p \in NodesOf(pre.heap, pre.root) :
              /\ pre.heap[p].lchild = n => p \in NodesOf(heap, root) /\ heap[p].lchild = n
              /\ pre.heap[p].rchild = n => p \in NodesOf(heap, root) /\ heap[p].rchild = n

\* A remove that found its target in a node with one child, below the root,
\* and whose unwinding rotated at the root.
C13_Witness ==
    /\ last.op = "remove" /\ SiteChild # NULL
    /\ Site.node # pre.root /\ root # pre.root
    /\ KeyOf(pre.heap[Site.node].item) = KeyOf(last.arg)

====
